---- MODULE Spec2Model ----
(***************************************************************************)
(* Verification model of three pieces of integrations-core:                *)
(*   - the SQL Server agent-activity collector (SqlserverAgentActivity),   *)
(*     a watermark-filtered poll of msdb.dbo.sysjobhistory;                *)
(*   - the `ddev validate version` command;                                *)
(*   - the KubeVirt checks (KubeVirtApiCheck, KubevirtHandlerCheck): one   *)
(*     check run, and the custom metric transformer.                       *)
(* Each piece has its own specification over the shared variable tuple.    *)
(***************************************************************************)
EXTENDS Integers, Sequences, FiniteSets, TLC

VARIABLES
    \* ---- msdb.dbo.sysjobhistory and the SqlserverAgentActivity instance
    sysjobhistory,      \* the table: sequence of rows in insertion order
    nextInstanceId,     \* the identity value the next inserted row gets
    lastHistoryId,      \* self._last_history_id
    agentPc,            \* "idle" | "sending" (inside collect_agent_activity)
    historyRows,        \* history_rows of the current / last run
    pendingGroups,      \* groups of the current run not yet handed to the sink
    sink,               \* events handed to database_monitoring_query_activity
    runs,               \* number of collect_agent_activity runs started
    lastRunStatus,      \* "none" | "ok" | "raised": how the last run ended
    \* ---- history (ghost) variables of the collector
    returnedRows,       \* every row any query has returned so far
    lastQuery,          \* the filter and watermark of the last executed query
    startTable,         \* the table as the current / last run's query saw it
    \* ---- ddev validate version
    repoName,           \* app.repo.name
    versionPc,          \* "start" | "loop" | "visited" | "success" | "aborted" | "crashed"
    trackerErrors,      \* tracker.errors: sequence of project names
    displayed,          \* messages displayed, in order
    processed,          \* projects the loop has visited, in order
    current,            \* the project of the current iteration with what its visit did
    \* ---- KubeVirtApiCheck / KubevirtHandlerCheck: one check run
    checkKind,          \* "api" | "handler": which check class this instance is
    instance,           \* the instance configuration as _parse_config reads it
    checkPc,            \* the statement of check() the run is at, "done" or "raised"
    baseVmTags,         \* self.base_vm_tags (api)
    basePodTags,        \* self.base_pod_tags (api) / self.base_tags (handler)
    kubeClient,         \* whether self.kube_client has been set up
    healthResponse,     \* how the GET of the healthz endpoint ended, "none" before it
    gauges,             \* gauges submitted by check() itself in this run, in order
    vms,                \* what kube_client.get_vms() returned in this run
    vmis,               \* what kube_client.get_vmis() returned in this run
    scraped,            \* whether super().check(_) ran in this run
    \* ---- the custom metric transformer of the KubeVirt checks
    metric,             \* the _metric of the last call of transform
    sampleData,         \* the samples its sample_data yields, in order
    iterable,           \* "generator" | "list": what kind of iterable sample_data is
    submitted           \* what that call submitted, in order

agentVars == <<sysjobhistory, nextInstanceId, lastHistoryId, agentPc, historyRows,
               pendingGroups, sink, runs, lastRunStatus, returnedRows, lastQuery,
               startTable>>
versionVars == <<repoName, versionPc, trackerErrors, displayed, processed, current>>
transformVars == <<metric, sampleData, iterable, submitted>>
kubeVars == <<checkKind, instance, checkPc, baseVmTags, basePodTags, kubeClient,
              healthResponse, gauges, vms, vmis, scraped, transformVars>>
vars == <<agentVars, versionVars, kubeVars>>

----------------------------------------------------------------------------
(* Bounds *)
MaxRows == 3        \* rows the table may hold
NumJobs == 2        \* distinct job_id values
MaxRuns == 3        \* collect_agent_activity runs
MaxMajor == 10      \* the largest major version number written in a file
MaxReleases == 2    \* release headings a CHANGELOG.md may hold
MaxAboutVersions == 1   \* version strings a version file may hold
MaxProjects == 2    \* projects one run of the command iterates over
MaxObjects == 2     \* VMs (and VMIs) the Kubernetes client returns
MaxSamples == 2     \* samples of one scraped metric

----------------------------------------------------------------------------
(* Helpers *)
Range(s) == {s[i] : i \in 1..Len(s)}

MinOf(S) == CHOOSE m \in S : \A x \in S : m <= x
MaxOf(S) == CHOOSE m \in S : \A x \in S : m >= x

\* every enumeration of the finite set S as a sequence without repetition
Orders(S) == {f \in [1..Cardinality(S) -> S] : \A i, j \in 1..Cardinality(S) : f[i] = f[j] => i = j}

----------------------------------------------------------------------------
(* SqlserverAgentActivity *)

\* Python None for self._last_history_id (instance ids are never negative)
None == -1

\* Python truthiness of an int-or-None: None and 0 are falsy
Truthy(x) == x # None /\ x # 0

JobIds == 1..NumJobs
\* step_id 0 is the job outcome row; the query treats every other step_id alike
StepIds == {0, 1}

\* rows sjh2 of the correlated subqueries: the job outcome rows (step_id = 0) of
\* the same job at or after row r
Sjh2(tbl, r) == {s \in Range(tbl) : s.job_id = r.job_id /\ s.step_id = 0
                                     /\ s.instance_id >= r.instance_id}

\* the select-list subquery SELECT MIN(sjh2.instance_id)
CompletionInstanceId(tbl, r) == MinOf({s.instance_id : s \in Sjh2(tbl, r)})

\* last_instance_id_filter: the HAVING clause is added only when the watermark is truthy
LastInstanceIdFilter(last) ==
    IF Truthy(last) THEN [having |-> TRUE, last_history_id |-> last]
                    ELSE [having |-> FALSE, last_history_id |-> None]

\* the EXISTS predicate of the WHERE clause.  With HAVING, the subquery is one
\* aggregate group; over no rows MIN is NULL and the comparison is not true.
ExistsCompletion(tbl, r, filter) ==
    /\ Sjh2(tbl, r) # {}
    /\ filter.having => CompletionInstanceId(tbl, r) > filter.last_history_id

\* the rows AGENT_HISTORY_QUERY returns, as a set (the query has no ORDER BY)
AgentHistoryQuery(tbl, filter) ==
    {[job_id |-> r.job_id, step_id |-> r.step_id, step_instance_id |-> r.instance_id,
      completion_instance_id |-> CompletionInstanceId(tbl, r)] :
        r \in {x \in Range(tbl) : ExistsCompletion(tbl, x, filter)}}

\* mutant: the comparison is dropped, the last row read wins
RECURSIVE UpdateLastRowWins(_, _)
UpdateLastRowWins(last, rows) ==
    IF rows = <<>> THEN last
    ELSE UpdateLastRowWins(Head(rows).completion_instance_id, Tail(rows))

\* the loop `for row in rows` that moves the watermark
RECURSIVE UpdateLastHistoryId(_, _)
UpdateLastHistoryId(last, rows) ==
    IF rows = <<>> THEN last
    ELSE UpdateLastHistoryId(
            IF last = None \/ Head(rows).completion_instance_id > last
                THEN Head(rows).completion_instance_id ELSE last,
            Tail(rows))

\* mutant: a row of a known group replaces the group instead of joining it
RECURSIVE GroupOverwrites(_, _)
GroupOverwrites(groups, rows) ==
    IF rows = <<>> THEN groups
    ELSE LET row == Head(rows)
             hit == {i \in 1..Len(groups) :
                        groups[i][1].completion_instance_id = row.completion_instance_id}
         IN  IF hit = {}
                THEN GroupOverwrites(Append(groups, <<row>>), Tail(rows))
                ELSE LET i == CHOOSE k \in hit : TRUE
                     IN  GroupOverwrites([groups EXCEPT ![i] = <<row>>], Tail(rows))

\* the dict history_rows_grouped_by_instance, as its values() in insertion order
RECURSIVE GroupByInstance(_, _)
GroupByInstance(groups, rows) ==
    IF rows = <<>> THEN groups
    ELSE LET row == Head(rows)
             hit == {i \in 1..Len(groups) :
                        groups[i][1].completion_instance_id = row.completion_instance_id}
         IN  IF hit = {}
                THEN GroupByInstance(Append(groups, <<row>>), Tail(rows))
                ELSE LET i == CHOOSE k \in hit : TRUE
                     IN  GroupByInstance([groups EXCEPT ![i] = Append(@, row)], Tail(rows))

\* _create_agent_jobs_history_event: the envelope around one group (run is the
\* model's stand-in for the timestamp)
CreateAgentJobsHistoryEvent(group, run) == [run |-> run, sqlserver_job_history |-> group]

\* SQL Server Agent appends a history row: a step row or a job outcome row
InsertHistoryRow ==
    /\ Len(sysjobhistory) < MaxRows
    /\ \E job \in JobIds, step \in StepIds :
        sysjobhistory' = Append(sysjobhistory,
            [job_id |-> job, step_id |-> step, instance_id |-> nextInstanceId])
    /\ nextInstanceId' = nextInstanceId + 1
    /\ UNCHANGED <<lastHistoryId, agentPc, historyRows, pendingGroups, sink, runs,
                   lastRunStatus, returnedRows, lastQuery, startTable>>

\* collect_agent_activity up to the send loop: _get_new_agent_job_history
\* (query, fetch, watermark update) and the grouping
GetNewAgentJobHistory ==
    /\ agentPc = "idle"
    /\ runs < MaxRuns
    /\ LET filter == LastInstanceIdFilter(lastHistoryId) IN
        /\ lastQuery' = [filter |-> filter, watermark |-> lastHistoryId]
        /\ \E rows \in Orders(AgentHistoryQuery(sysjobhistory, filter)) :
            /\ lastHistoryId' = UpdateLastHistoryId(lastHistoryId, rows)
            /\ historyRows' = rows
            /\ pendingGroups' = GroupByInstance(<<>>, rows)
            /\ returnedRows' = returnedRows \cup Range(rows)
    /\ startTable' = sysjobhistory
    /\ runs' = runs + 1
    /\ agentPc' = "sending"
    /\ UNCHANGED <<sysjobhistory, nextInstanceId, sink, lastRunStatus>>

\* one iteration of `for group in ....values()`: the event is built, serialized
\* and handed to the sink
SendEvent ==
    /\ agentPc = "sending"
    /\ pendingGroups # <<>>
    /\ sink' = Append(sink, CreateAgentJobsHistoryEvent(Head(pendingGroups), runs))
    /\ pendingGroups' = Tail(pendingGroups)
    /\ UNCHANGED <<sysjobhistory, nextInstanceId, lastHistoryId, agentPc, historyRows, runs,
                   lastRunStatus, returnedRows, lastQuery, startTable>>

\* json.dumps or database_monitoring_query_activity raises: the exception leaves
\* collect_agent_activity, the remaining groups are dropped
SendRaises ==
    /\ agentPc = "sending"
    /\ pendingGroups # <<>>
    /\ pendingGroups' = <<>>
    /\ agentPc' = "idle"
    /\ lastRunStatus' = "raised"
    /\ UNCHANGED <<sysjobhistory, nextInstanceId, lastHistoryId, historyRows, sink, runs,
                   returnedRows, lastQuery, startTable>>

\* the send loop is exhausted: collect_agent_activity returns
FinishRun ==
    /\ agentPc = "sending"
    /\ pendingGroups = <<>>
    /\ agentPc' = "idle"
    /\ lastRunStatus' = "ok"
    /\ UNCHANGED <<sysjobhistory, nextInstanceId, lastHistoryId, historyRows, pendingGroups,
                   sink, runs, returnedRows, lastQuery, startTable>>

InitAgent ==
    /\ sysjobhistory = <<>>
    /\ nextInstanceId \in 0..1
    /\ lastHistoryId = None
    /\ agentPc = "idle"
    /\ historyRows = <<>>
    /\ pendingGroups = <<>>
    /\ sink = <<>>
    /\ runs = 0
    /\ lastRunStatus = "none"
    /\ returnedRows = {}
    /\ lastQuery = [filter |-> LastInstanceIdFilter(None), watermark |-> None]
    /\ startTable = <<>>
    \* the version command is not part of this specification
    /\ repoName = "core"
    /\ versionPc = "start"
    /\ trackerErrors = <<>>
    /\ displayed = <<>>
    /\ processed = <<>>
    /\ current = <<>>
    \* the KubeVirt checks are not part of this specification
    /\ checkKind = "api"
    /\ instance = <<>>
    /\ checkPc = "done"
    /\ baseVmTags = <<>>
    /\ basePodTags = <<>>
    /\ kubeClient = FALSE
    /\ healthResponse = "none"
    /\ gauges = <<>>
    /\ vms = <<>>
    /\ vmis = <<>>
    /\ scraped = FALSE
    /\ metric = <<>>
    /\ sampleData = <<>>
    /\ iterable = "generator"
    /\ submitted = <<>>

NextAgent ==
    \/ InsertHistoryRow /\ UNCHANGED <<versionVars, kubeVars>>
    \/ GetNewAgentJobHistory /\ UNCHANGED <<versionVars, kubeVars>>
    \/ SendEvent /\ UNCHANGED <<versionVars, kubeVars>>
    \/ SendRaises /\ UNCHANGED <<versionVars, kubeVars>>
    \/ FinishRun /\ UNCHANGED <<versionVars, kubeVars>>

SpecAgent == InitAgent /\ [][NextAgent]_vars

----------------------------------------------------------------------------
(* ddev validate version *)

\* a str as the sequence of its code points: '0'..'9' are 48..57, '.' is 46
RECURSIVE Digits(_)
Digits(n) == IF n < 10 THEN <<48 + n>> ELSE Digits(n \div 10) \o <<48 + (n % 10)>>

\* the text of a version as release tooling writes it: major.minor.patch
VersionString(v) == Digits(v[1]) \o <<46>> \o Digits(v[2]) \o <<46>> \o Digits(v[3])

\* Python's a < b on str: lexicographic by code point, a proper prefix is smaller
RECURSIVE StrLess(_, _)
StrLess(a, b) ==
    IF b = <<>> THEN FALSE
    ELSE IF a = <<>> THEN TRUE
    ELSE IF Head(a) # Head(b) THEN Head(a) < Head(b)
    ELSE StrLess(Tail(a), Tail(b))

\* the literal '1.0.0'
ONE_ZERO_ZERO == <<49, 46, 48, 46, 48>>

\* MISSING = object(): the sentinel for "no release found" (no str equals it)
MISSING == <<>>

\* the versions the files of the model hold
Versions == {<<0, 0, 1>>, <<0, 1, 0>>, <<1, 0, 0>>, <<MaxMajor, 0, 0>>}

SeqsUpTo(S, n) == UNION {[1..k -> S] : k \in 0..n}

ProjectNames == {"ddev", "postgres", "snmp"}

\* the towncrier marker and the `## x.y.z` headings of CHANGELOG.md, in file
\* order; a file that does not exist has no content
ChangelogContents(exists) ==
    IF exists THEN [towncrier : BOOLEAN, releases : SeqsUpTo(Versions, MaxReleases)]
              ELSE {[towncrier |-> FALSE, releases |-> <<>>]}

\* the x.y.z strings of the version file, in file order
AboutContents(exists) ==
    IF exists THEN SeqsUpTo(Versions, MaxAboutVersions) ELSE {<<>>}

\* what the loop reads of one project: its name, whether its version file and
\* its CHANGELOG.md exist and what they hold, and is_tile
Projects ==
    UNION {
        {[name |-> n, version_file_exists |-> ex[1], changelog_exists |-> ex[2],
          towncrier |-> c.towncrier, releases |-> c.releases, about |-> a, is_tile |-> t] :
            n \in ProjectNames, c \in ChangelogContents(ex[2]),
            a \in AboutContents(ex[1]), t \in BOOLEAN} :
        ex \in BOOLEAN \X BOOLEAN}

\* mutant: the last release heading of the file is taken as the latest
ParseChangelogLast(p) ==
    [managed_by_towncrier |-> p.towncrier,
     latest |-> IF p.releases # <<>> THEN VersionString(p.releases[Len(p.releases)]) ELSE MISSING]

\* _parse_changelog: the towncrier marker and the first `## x.y.z` heading
ParseChangelog(p) ==
    [managed_by_towncrier |-> p.towncrier,
     latest |-> IF p.releases # <<>> THEN VersionString(p.releases[1]) ELSE MISSING]

NoError == [errors |-> <<>>, raised |-> FALSE]
TrackErr(message) == [errors |-> <<message>>, raised |-> FALSE]
Raised == [errors |-> <<>>, raised |-> TRUE]

\* _validate_python_package
ValidatePythonPackage(p, changelog_is_autogenerated, changelog_latest_v) ==
    IF ~changelog_is_autogenerated THEN TrackErr("managed manually")
    ELSE IF p.about = <<>> THEN Raised      \* re.findall(...)[0] on no match: IndexError
    ELSE LET latest_pkg_v == VersionString(p.about[1]) IN
        IF StrLess(latest_pkg_v, ONE_ZERO_ZERO)
            THEN IF changelog_latest_v # MISSING THEN TrackErr("not released yet")
                                                 ELSE NoError
        ELSE IF ~StrLess(latest_pkg_v, ONE_ZERO_ZERO) /\ changelog_latest_v = MISSING
            THEN TrackErr("no releases")
        ELSE IF changelog_latest_v # latest_pkg_v THEN TrackErr("does not match")
        ELSE NoError

\* _validate_tile_only_int
ValidateTileOnlyInt(changelog_is_autogenerated, changelog_latest_v) ==
    IF changelog_is_autogenerated THEN TrackErr("expects a Python package")
    ELSE IF changelog_latest_v = MISSING THEN TrackErr("missing a version")
    ELSE NoError

\* the body of `for project in ...iter_all(...)` for one project
VisitProject(p) ==
    IF p.name = "ddev" THEN NoError
    ELSE LET is_python_pkg == p.version_file_exists IN
        IF is_python_pkg /\ ~p.changelog_exists THEN TrackErr("changelog missing")
        ELSE IF ~p.changelog_exists THEN Raised     \* path.read_text(): FileNotFoundError
        ELSE LET parsed == ParseChangelog(p) IN
            IF is_python_pkg
                THEN ValidatePythonPackage(p, parsed.managed_by_towncrier, parsed.latest)
            ELSE IF p.is_tile
                THEN ValidateTileOnlyInt(parsed.managed_by_towncrier, parsed.latest)
            ELSE NoError

\* the start of the command: only repo `core` is validated
VersionStart ==
    /\ versionPc = "start"
    /\ IF repoName # "core"
          THEN /\ displayed' = Append(displayed, "Version validation is only available for repo core")
               /\ versionPc' = "aborted"
          ELSE /\ displayed' = displayed
               /\ versionPc' = "loop"
    /\ UNCHANGED <<repoName, trackerErrors, processed, current>>

\* one iteration of the loop over the selected projects
Validate ==
    /\ versionPc = "loop"
    /\ Len(processed) < MaxProjects
    /\ \E p \in Projects :
        /\ p.name \notin Range(processed)
        /\ LET visit == VisitProject(p) IN
            /\ trackerErrors' = trackerErrors \o [i \in 1..Len(visit.errors) |-> p.name]
            /\ current' = <<[project |-> p, errors |-> visit.errors, raised |-> visit.raised]>>
            /\ versionPc' = IF visit.raised THEN "crashed" ELSE "visited"
        /\ processed' = Append(processed, p.name)
    /\ UNCHANGED <<repoName, displayed>>

\* the loop goes on to its next iteration
NextProject ==
    /\ versionPc = "visited"
    /\ versionPc' = "loop"
    /\ current' = <<>>
    /\ UNCHANGED <<repoName, trackerErrors, displayed, processed>>

\* the loop is exhausted: tracker.display(), then abort or success
VersionFinish ==
    /\ versionPc = "loop"
    /\ IF trackerErrors # <<>>
          THEN /\ versionPc' = "aborted"
               /\ displayed' = displayed
          ELSE /\ versionPc' = "success"
               /\ displayed' = Append(displayed, "Version checks out.")
    /\ UNCHANGED <<repoName, trackerErrors, processed, current>>

InitVersion ==
    /\ repoName \in {"core", "extras"}
    /\ versionPc = "start"
    /\ trackerErrors = <<>>
    /\ displayed = <<>>
    /\ processed = <<>>
    /\ current = <<>>
    \* the collector is not part of this specification
    /\ sysjobhistory = <<>>
    /\ nextInstanceId = 1
    /\ lastHistoryId = None
    /\ agentPc = "idle"
    /\ historyRows = <<>>
    /\ pendingGroups = <<>>
    /\ sink = <<>>
    /\ runs = 0
    /\ lastRunStatus = "none"
    /\ returnedRows = {}
    /\ lastQuery = [filter |-> LastInstanceIdFilter(None), watermark |-> None]
    /\ startTable = <<>>
    \* the KubeVirt checks are not part of this specification
    /\ checkKind = "api"
    /\ instance = <<>>
    /\ checkPc = "done"
    /\ baseVmTags = <<>>
    /\ basePodTags = <<>>
    /\ kubeClient = FALSE
    /\ healthResponse = "none"
    /\ gauges = <<>>
    /\ vms = <<>>
    /\ vmis = <<>>
    /\ scraped = FALSE
    /\ metric = <<>>
    /\ sampleData = <<>>
    /\ iterable = "generator"
    /\ submitted = <<>>

NextVersion ==
    \/ VersionStart /\ UNCHANGED <<agentVars, kubeVars>>
    \/ Validate /\ UNCHANGED <<agentVars, kubeVars>>
    \/ NextProject /\ UNCHANGED <<agentVars, kubeVars>>
    \/ VersionFinish /\ UNCHANGED <<agentVars, kubeVars>>

SpecVersion == InitVersion /\ [][NextVersion]_vars

----------------------------------------------------------------------------
(* KubeVirtApiCheck and KubevirtHandlerCheck: one run of check() *)

\* instance.get(...) of a key the configuration does not set (Python None)
Unset == "None"

\* a tag "prefix + name : value" as the triple <<prefix, name, value>>
Tag(name, value) == <<"", name, value>>

\* the instance configurations of the model: the healthz endpoint and the three
\* kube_* options are each set or not; the metrics URL is well formed, has a host
\* that is no IP address, or lacks host or port
Instances ==
    [healthz_endpoint : {Unset, "https://10.0.0.1:443/healthz"},
     metrics_endpoint : {"ip and port", "host is a name", "no port"},
     kube_cluster_name : {Unset, "prod"},
     kube_namespace : {Unset, "kubevirt"},
     kube_pod_name : {Unset, "virt-1"}]

\* KubeVirtApiCheck._init_base_tags: base_vm_tags
ApiBaseVmTags(inst) ==
    IF inst.kube_cluster_name # Unset THEN <<Tag("kube_cluster_name", inst.kube_cluster_name)>>
                                       ELSE <<>>

\* KubeVirtApiCheck._init_base_tags: base_pod_tags
ApiBasePodTags(inst) ==
    (IF inst.kube_cluster_name # Unset THEN <<Tag("kube_cluster_name", inst.kube_cluster_name)>> ELSE <<>>)
    \o (IF inst.kube_namespace # Unset THEN <<Tag("kube_namespace", inst.kube_namespace)>> ELSE <<>>)
    \o (IF inst.kube_pod_name # Unset THEN <<Tag("pod_name", inst.kube_pod_name)>> ELSE <<>>)

\* KubevirtHandlerCheck._init_base_tags: base_tags (pod and namespace always)
HandlerBaseTags(inst) ==
    <<Tag("pod_name", inst.kube_pod_name), Tag("kube_namespace", inst.kube_namespace)>>
    \o (IF inst.kube_cluster_name # Unset THEN <<Tag("kube_cluster_name", inst.kube_cluster_name)>> ELSE <<>>)

\* self.gauge(name, value, tags=tags)
Gauge(name, value, tags) == [name |-> name, value |-> value, tags |-> tags]

\* the first statement of check(): _init_base_tags
InitBaseTags ==
    /\ checkPc = "start"
    /\ baseVmTags' = IF checkKind = "api" THEN ApiBaseVmTags(instance) ELSE <<>>
    /\ basePodTags' = IF checkKind = "api" THEN ApiBasePodTags(instance) ELSE HandlerBaseTags(instance)
    /\ checkPc' = "health"
    /\ UNCHANGED <<checkKind, instance, kubeClient, healthResponse, gauges, vms, vmis, scraped>>

\* the statement after the health check: the api check validates its metrics
\* endpoint next, the handler check goes straight to super().check(_)
AfterHealth == IF checkKind = "api" THEN "validate" ELSE "scrape"

\* mutant: the failure is reported but not re-raised
HealthOutcomeSwallowed(response) ==
    IF response = "ok"
        THEN [value |-> 1, next |-> AfterHealth]
        ELSE [value |-> 0, next |-> AfterHealth]

\* _report_health_check: the try block ends in gauge 1; any exception of
\* http.get or raise_for_status goes to the except block: gauge 0, raise
HealthOutcome(response) ==
    IF response = "ok"
        THEN [value |-> 1, next |-> AfterHealth]
        ELSE [value |-> 0, next |-> "raised"]

\* check(): the healthz endpoint is configured, _report_health_check runs
ReportHealthCheck ==
    /\ checkPc = "health"
    /\ instance.healthz_endpoint # Unset
    /\ \E response \in {"ok", "error status", "no connection"} :
        LET outcome == HealthOutcome(response) IN
        /\ gauges' = Append(gauges,
                Gauge("can_connect", outcome.value,
                      <<Tag("endpoint", instance.healthz_endpoint)>> \o basePodTags))
        /\ checkPc' = outcome.next
        /\ healthResponse' = response
    /\ UNCHANGED <<checkKind, instance, baseVmTags, basePodTags, kubeClient, vms, vmis, scraped>>

\* check(): no healthz endpoint, a warning is logged and the run goes on
SkipHealthCheck ==
    /\ checkPc = "health"
    /\ instance.healthz_endpoint = Unset
    /\ checkPc' = AfterHealth
    /\ UNCHANGED <<checkKind, instance, baseVmTags, basePodTags, kubeClient, healthResponse, gauges,
                   vms, vmis, scraped>>

\* _validate_metrics_endpoint: ValueError unless host and port are there and the
\* host is an IP address
ValidateMetricsEndpoint ==
    /\ checkPc = "validate"
    /\ checkPc' = IF instance.metrics_endpoint = "ip and port" THEN "kube" ELSE "raised"
    /\ UNCHANGED <<checkKind, instance, baseVmTags, basePodTags, kubeClient, healthResponse, gauges,
                   vms, vmis, scraped>>

\* _setup_kube_client: the client is built, or its constructor raises
SetupKubeClient ==
    /\ checkPc = "kube"
    /\ \E connects \in BOOLEAN :
        /\ kubeClient' = connects
        /\ checkPc' = IF connects THEN "vms" ELSE "raised"
    /\ UNCHANGED <<checkKind, instance, baseVmTags, basePodTags, healthResponse, gauges, vms, vmis, scraped>>

\* a VM or VMI as the Kubernetes client returns it: the empty dict, or an object
\* with metadata (name, uid, namespace), status.phase (VMI) and its labels
\* (spec.template.metadata.labels of a VM, metadata.labels of a VMI) in dict order
EmptyObject == [empty |-> TRUE, name |-> "", uid |-> "", namespace |-> "", phase |-> "", labels |-> <<>>]

\* a label "kubevirt.io/name" or "name" with its value
Label(kubevirt, name, value) == [kubevirt |-> kubevirt, name |-> name, value |-> value]

KubeObject(name, phase, labels) ==
    [empty |-> FALSE, name |-> name, uid |-> "uid-" \o name, namespace |-> "default",
     phase |-> phase, labels |-> labels]

Objects ==
    { EmptyObject,
      KubeObject("a", "Running", <<>>),
      KubeObject("b", "Running", <<Label(TRUE, "domain", "b")>>),
      KubeObject("c", "Pending", <<Label(FALSE, "app", "web"), Label(TRUE, "size", "small")>>) }

\* the loop over the labels of _extract_vm_tags / _extract_vmi_tags: labels not
\* starting with "kubevirt.io/" are skipped, the others give prefix + name : value
RECURSIVE LabelTags(_, _)
LabelTags(prefix, labels) ==
    IF labels = <<>> THEN <<>>
    ELSE (IF Head(labels).kubevirt
              THEN <<<<prefix, Head(labels).name, Head(labels).value>>>>
              ELSE <<>>)
         \o LabelTags(prefix, Tail(labels))

\* the tag of the cluster name both extractors add when it is configured
ClusterTag(inst) ==
    IF inst.kube_cluster_name # Unset THEN <<Tag("kube_cluster_name", inst.kube_cluster_name)>>
                                       ELSE <<>>

\* _extract_vm_tags
ExtractVmTags(vm, inst) ==
    IF vm.empty THEN <<>>
    ELSE <<Tag("vm_name", vm.name), Tag("vm_uid", vm.uid), Tag("kube_namespace", vm.namespace)>>
         \o ClusterTag(inst) \o LabelTags("vm_", vm.labels)

\* _extract_vmi_tags
ExtractVmiTags(vmi, inst) ==
    IF vmi.empty THEN <<>>
    ELSE <<Tag("vmi_name", vmi.name), Tag("vmi_uid", vmi.uid), Tag("vmi_phase", vmi.phase),
           Tag("kube_namespace", vmi.namespace)>>
         \o ClusterTag(inst) \o LabelTags("vmi_", vmi.labels)

\* mutant: nothing is reported when the client returns no VM
VmGaugesNoZero(vmList, inst, baseTags) ==
    [i \in 1..Len(vmList) |-> Gauge("vm.count", 1, ExtractVmTags(vmList[i], inst))]

\* the gauges of _report_vm_metrics
VmGauges(vmList, inst, baseTags) ==
    IF vmList # <<>>
        THEN [i \in 1..Len(vmList) |-> Gauge("vm.count", 1, ExtractVmTags(vmList[i], inst))]
        ELSE <<Gauge("vm.count", 0, baseTags)>>

\* the gauges of _report_vmis_metrics
VmiGauges(vmiList, inst, baseTags) ==
    IF vmiList # <<>>
        THEN [i \in 1..Len(vmiList) |-> Gauge("vmi.count", 1, ExtractVmiTags(vmiList[i], inst))]
        ELSE <<Gauge("vmi.count", 0, baseTags)>>

\* _report_vm_metrics
ReportVmMetrics ==
    /\ checkPc = "vms"
    /\ \E returned \in SeqsUpTo(Objects, MaxObjects) :
        /\ vms' = returned
        /\ gauges' = gauges \o VmGauges(returned, instance, baseVmTags)
    /\ checkPc' = "vmis"
    /\ UNCHANGED <<checkKind, instance, baseVmTags, basePodTags, kubeClient, healthResponse, vmis, scraped>>

\* _report_vmis_metrics
ReportVmisMetrics ==
    /\ checkPc = "vmis"
    /\ \E returned \in SeqsUpTo(Objects, MaxObjects) :
        /\ vmis' = returned
        /\ gauges' = gauges \o VmiGauges(returned, instance, baseVmTags)
    /\ checkPc' = "scrape"
    /\ UNCHANGED <<checkKind, instance, baseVmTags, basePodTags, kubeClient, healthResponse, vms, scraped>>

\* super().check(_): the OpenMetrics scrape, which ends the run or raises
Scrape ==
    /\ checkPc = "scrape"
    /\ scraped' = TRUE
    /\ \E ok \in BOOLEAN : checkPc' = IF ok THEN "done" ELSE "raised"
    /\ UNCHANGED <<checkKind, instance, baseVmTags, basePodTags, kubeClient, healthResponse, gauges,
                   vms, vmis>>

InitKubevirt ==
    /\ checkKind \in {"api", "handler"}
    /\ instance \in Instances
    /\ checkPc = "start"
    /\ baseVmTags = <<>>
    /\ basePodTags = <<>>
    /\ kubeClient = FALSE
    /\ healthResponse = "none"
    /\ gauges = <<>>
    /\ vms = <<>>
    /\ vmis = <<>>
    /\ scraped = FALSE
    /\ metric = <<>>
    /\ sampleData = <<>>
    /\ iterable = "generator"
    /\ submitted = <<>>
    \* the other two programs are not part of this specification
    /\ sysjobhistory = <<>>
    /\ nextInstanceId = 1
    /\ lastHistoryId = None
    /\ agentPc = "idle"
    /\ historyRows = <<>>
    /\ pendingGroups = <<>>
    /\ sink = <<>>
    /\ runs = 0
    /\ lastRunStatus = "none"
    /\ returnedRows = {}
    /\ lastQuery = [filter |-> LastInstanceIdFilter(None), watermark |-> None]
    /\ startTable = <<>>
    /\ repoName = "core"
    /\ versionPc = "start"
    /\ trackerErrors = <<>>
    /\ displayed = <<>>
    /\ processed = <<>>
    /\ current = <<>>

NextKubevirt ==
    \/ InitBaseTags /\ UNCHANGED <<agentVars, versionVars, transformVars>>
    \/ ReportHealthCheck /\ UNCHANGED <<agentVars, versionVars, transformVars>>
    \/ SkipHealthCheck /\ UNCHANGED <<agentVars, versionVars, transformVars>>
    \/ ValidateMetricsEndpoint /\ UNCHANGED <<agentVars, versionVars, transformVars>>
    \/ SetupKubeClient /\ UNCHANGED <<agentVars, versionVars, transformVars>>
    \/ ReportVmMetrics /\ UNCHANGED <<agentVars, versionVars, transformVars>>
    \/ ReportVmisMetrics /\ UNCHANGED <<agentVars, versionVars, transformVars>>
    \/ Scrape /\ UNCHANGED <<agentVars, versionVars, transformVars>>

SpecKubevirt == InitKubevirt /\ [][NextKubevirt]_vars

----------------------------------------------------------------------------
(* The custom metric transformer of the KubeVirt checks *)

\* METRICS_MAP: scraped metric name -> Datadog name, given as a string or as a
\* dict with a "name" key
METRICS_MAP ==
    [n \in {"kubevirt_vmi_phase_count", "rest_client_requests_total"} |->
        IF n = "kubevirt_vmi_phase_count"
            THEN [dict |-> FALSE, name |-> "vmi.phase_count"]
            ELSE [dict |-> TRUE, name |-> "rest_client_requests"]]

\* the scraped metrics of the model: mapped by a string, mapped by a dict, not
\* mapped, each as counter, gauge or histogram
Metrics ==
    [name : DOMAIN METRICS_MAP \cup {"go_goroutines"},
     type : {"counter", "gauge", "histogram"}]

\* the elements of sample_data: (sample, tags, hostname)
Samples ==
    [value : {1, 2},
     tags : {<<>>, <<Tag("name", "vmi-a")>>},
     hostname : {"node-1"}]

\* METRICS_MAP[metric_name], unwrapped when it is a dict with a "name" key
NewMetricName(metricName) == METRICS_MAP[metricName].name

\* one submission: self.count / self.gauge / the native transformer's, with the
\* name as <<name, suffix>>
Submission(method, name, suffix, sample, tags) ==
    [method |-> method, name |-> <<name, suffix>>, value |-> sample.value,
     tags |-> tags, hostname |-> sample.hostname]

\* add_tag_to_sample
AddTagToSample(sample, podTags) == [sample EXCEPT !.tags = @ \o podTags]

\* the transformer get_native_dynamic_transformer returns for the metric's type:
\* it iterates the sample data it is handed and submits each element under the
\* new name
NativeTransformer(newMetricName, data) ==
    [i \in 1..Len(data) |-> Submission("native", newMetricName, "", data[i], data[i].tags)]

\* the for loop of transform over sample_data: remaining is what sample_data
\* still yields; a generator handed to the native transformer is drained by it,
\* a list is iterated by it from the start
RECURSIVE TransformLoop(_, _, _, _)
TransformLoop(m, remaining, call, out) ==
    IF remaining = <<>> THEN out
    ELSE LET sample == Head(remaining)
             rest == Tail(remaining)
             tags == sample.tags \o call.base
         IN  IF m.name \notin DOMAIN METRICS_MAP THEN TransformLoop(m, rest, call, out)
             ELSE IF m.type = "counter"
                 THEN TransformLoop(m, rest, call,
                        Append(out, Submission("count", NewMetricName(m.name), ".count", sample, tags)))
             ELSE IF m.type = "gauge"
                 THEN TransformLoop(m, rest, call,
                        Append(out, Submission("gauge", NewMetricName(m.name), "", sample, tags)))
             ELSE IF call.generator
                 THEN TransformLoop(m, <<>>, call,
                        out \o NativeTransformer(NewMetricName(m.name),
                                [i \in 1..Len(rest) |-> AddTagToSample(rest[i], call.base)]))
                 ELSE TransformLoop(m, rest, call,
                        out \o NativeTransformer(NewMetricName(m.name),
                                [i \in 1..Len(call.all) |-> AddTagToSample(call.all[i], call.base)]))

\* transform(_metric, sample_data, _runtime_data)
Transform(m, data, generator, baseTags) ==
    TransformLoop(m, data, [all |-> data, generator |-> generator, base |-> baseTags], <<>>)

\* the scraper calls the transformer for one scraped metric during super().check(_)
TransformMetric ==
    /\ checkPc = "scrape"
    /\ \E m \in Metrics, data \in SeqsUpTo(Samples, MaxSamples), it \in {"generator", "list"} :
        /\ metric' = m
        /\ sampleData' = data
        /\ iterable' = it
        /\ submitted' = Transform(m, data, it = "generator", basePodTags)
    /\ UNCHANGED <<checkKind, instance, checkPc, baseVmTags, basePodTags, kubeClient, healthResponse,
                   gauges, vms, vmis, scraped>>

\* a run that has come to super().check(_): no healthz endpoint, a valid metrics
\* endpoint and, for the api check, a client that returned no VM and no VMI
InitTransform ==
    /\ checkKind \in {"api", "handler"}
    /\ instance \in {i \in Instances :
                        i.healthz_endpoint = Unset /\ i.metrics_endpoint = "ip and port"}
    /\ checkPc = "scrape"
    /\ baseVmTags = (IF checkKind = "api" THEN ApiBaseVmTags(instance) ELSE <<>>)
    /\ basePodTags = (IF checkKind = "api" THEN ApiBasePodTags(instance) ELSE HandlerBaseTags(instance))
    /\ kubeClient = (checkKind = "api")
    /\ healthResponse = "none"
    /\ gauges = (IF checkKind = "api"
                    THEN VmGauges(<<>>, instance, ApiBaseVmTags(instance))
                         \o VmiGauges(<<>>, instance, ApiBaseVmTags(instance))
                    ELSE <<>>)
    /\ vms = <<>>
    /\ vmis = <<>>
    /\ scraped = FALSE
    /\ metric = <<>>
    /\ sampleData = <<>>
    /\ iterable = "generator"
    /\ submitted = <<>>
    \* the other two programs are not part of this specification
    /\ sysjobhistory = <<>>
    /\ nextInstanceId = 1
    /\ lastHistoryId = None
    /\ agentPc = "idle"
    /\ historyRows = <<>>
    /\ pendingGroups = <<>>
    /\ sink = <<>>
    /\ runs = 0
    /\ lastRunStatus = "none"
    /\ returnedRows = {}
    /\ lastQuery = [filter |-> LastInstanceIdFilter(None), watermark |-> None]
    /\ startTable = <<>>
    /\ repoName = "core"
    /\ versionPc = "start"
    /\ trackerErrors = <<>>
    /\ displayed = <<>>
    /\ processed = <<>>
    /\ current = <<>>

NextTransform ==
    \/ TransformMetric /\ UNCHANGED <<agentVars, versionVars>>
    \/ Scrape /\ UNCHANGED <<agentVars, versionVars, transformVars>>

SpecTransform == InitTransform /\ [][NextTransform]_vars

----------------------------------------------------------------------------
(* Claims about SqlserverAgentActivity, checked under SpecAgent *)

CompletionIds(rows) == {r.completion_instance_id : r \in rows}

\* the rows of all events of run n, concatenated in sink order
RECURSIVE RowsOfRun(_, _)
RowsOfRun(events, n) ==
    IF events = <<>> THEN <<>>
    ELSE (IF Head(events).run = n THEN Head(events).sqlserver_job_history ELSE <<>>)
         \o RowsOfRun(Tail(events), n)

EventsOfRun(n) == SelectSeq(sink, LAMBDA e : e.run = n)

\* how many times the table row with this instance_id was handed to the sink
TimesEmitted(id) ==
    Cardinality({<<i, k>> \in (1..Len(sink)) \X (1..MaxRows) :
                    /\ k <= Len(sink[i].sqlserver_job_history)
                    /\ sink[i].sqlserver_job_history[k].step_instance_id = id})

\* rows of a table that belong to a completed job run
CompletedRows(tbl) == {r \in Range(tbl) : Sjh2(tbl, r) # {}}

\* the table holds no row with instance_id 0 (the identity column was seeded at 1)
PositiveIds == \A r \in Range(sysjobhistory) : r.instance_id >= 1

\* C1: _last_history_id never decreases: no step replaces an integer watermark by a
\* smaller value or by None, and inside one call the value after each further row
\* read is not smaller than the value before it, whatever the order of the rows.
C1_WatermarkNeverDecreases ==
    [][ /\ lastHistoryId # None => (lastHistoryId' # None /\ lastHistoryId' >= lastHistoryId)
        /\ \A k \in 1..Len(historyRows') :
              LET before == UpdateLastHistoryId(lastQuery'.watermark, SubSeq(historyRows', 1, k - 1))
                  after  == UpdateLastHistoryId(lastQuery'.watermark, SubSeq(historyRows', 1, k))
              IN  /\ after # None
                  /\ before # None => after >= before ]_vars

\* C1 witness: a later call moved an integer watermark forward although the rows
\* came back with the larger completion_instance_id first.
C1_Witness ==
    /\ lastQuery.watermark # None
    /\ lastHistoryId > lastQuery.watermark
    /\ Len(historyRows) >= 2
    /\ historyRows[1].completion_instance_id > historyRows[2].completion_instance_id

\* C2: after every call of _get_new_agent_job_history the watermark is the largest
\* completion_instance_id among all rows any query returned so far, and it is None
\* exactly when no query has returned a row.
C2_WatermarkIsMaxSeen ==
    /\ (lastHistoryId = None) <=> (returnedRows = {})
    /\ returnedRows # {} => lastHistoryId = MaxOf(CompletionIds(returnedRows))

\* C2 witness: two calls returned rows, the last one in descending order.
C2_Witness ==
    /\ runs >= 2
    /\ lastQuery.watermark # None
    /\ Len(historyRows) >= 2
    /\ historyRows[1].completion_instance_id > historyRows[2].completion_instance_id
    /\ lastHistoryId = historyRows[1].completion_instance_id

\* C3: whenever the watermark is not None when the query runs, whatever integer it
\* holds, the query is filtered and every returned row has a completion_instance_id
\* strictly greater than it; the query is unfiltered only when the watermark is None.
C3_FilteredWheneverNotNone ==
    runs >= 1 =>
        /\ lastQuery.watermark # None =>
              \A r \in Range(historyRows) : r.completion_instance_id > lastQuery.watermark
        /\ ~lastQuery.filter.having => lastQuery.watermark = None

\* C4: no history row (step_instance_id) is in the events of two different runs.
C4_NoRowInTwoRuns ==
    \A i, j \in 1..Len(sink) :
        sink[i].run # sink[j].run =>
            {r.step_instance_id : r \in Range(sink[i].sqlserver_job_history)}
              \cap {r.step_instance_id : r \in Range(sink[j].sqlserver_job_history)} = {}

\* C5: the watermark marks the last processed record: whenever no run is in
\* progress, an integer watermark is not greater than the largest
\* completion_instance_id handed to the sink, so that rows whose event was not
\* sent are still ahead of the watermark for the next query.  Stated for tables
\* whose instance_id values start at 1.
C5_WatermarkNotAheadOfSink ==
    (PositiveIds /\ agentPc = "idle" /\ lastHistoryId # None) =>
        /\ sink # <<>>
        /\ lastHistoryId <= MaxOf(UNION {CompletionIds(Range(e.sqlserver_job_history)) : e \in Range(sink)})

\* C6: when a run has finished without raising, its events partition the rows its
\* query returned by completion_instance_id: one event per distinct id, each event
\* exactly the rows of that id in query order, every row in exactly one event.
C6_EventsPartitionRows ==
    (agentPc = "idle" /\ lastRunStatus = "ok") =>
        LET events == EventsOfRun(runs)
            SameKey(key) == SelectSeq(historyRows, LAMBDA r : r.completion_instance_id = key)
        IN  /\ Len(events) = Cardinality(CompletionIds(Range(historyRows)))
            /\ Len(RowsOfRun(sink, runs)) = Len(historyRows)
            /\ Range(RowsOfRun(sink, runs)) = Range(historyRows)
            /\ \A i \in 1..Len(events) :
                  LET group == events[i].sqlserver_job_history
                  IN  /\ group # <<>>
                      /\ group = SameKey(group[1].completion_instance_id)
                      /\ \A j \in 1..Len(events) :
                            events[j].sqlserver_job_history[1].completion_instance_id
                              = group[1].completion_instance_id => i = j

\* C6 witness: a finished run whose query returned three rows of two job runs,
\* the rows of one job run separated by a row of the other.
C6_Witness ==
    /\ agentPc = "idle" /\ lastRunStatus = "ok"
    /\ Len(historyRows) = 3
    /\ Len(EventsOfRun(runs)) = 2
    /\ historyRows[1].completion_instance_id = historyRows[3].completion_instance_id
    /\ historyRows[1].completion_instance_id # historyRows[2].completion_instance_id

\* C10: once a run that started with a completed job run in the table has finished
\* without error, every row of that job run has been emitted, and exactly once.
\* Stated for tables whose instance_id values start at 1.
C10_CompletedRowsEmittedOnce ==
    (PositiveIds /\ agentPc = "idle" /\ lastRunStatus = "ok") =>
        \A r \in CompletedRows(startTable) : TimesEmitted(r.instance_id) = 1

----------------------------------------------------------------------------
(* Claims about ddev validate version, checked under SpecVersion *)

\* the errors the tracker holds for one project
ErrorsFor(name) == Cardinality({i \in 1..Len(trackerErrors) : trackerErrors[i] = name})

\* the project of the current iteration is a Python package: its version file is
\* __about__.py (every project but ddev) and exists, and CHANGELOG.md exists
IsPythonPackageWithChangelog(p) ==
    /\ p.name # "ddev"
    /\ p.version_file_exists
    /\ p.about # <<>>
    /\ p.changelog_exists

Terminated == versionPc \in {"success", "aborted", "crashed"}

\* C7: for an integration whose __about__.py holds a version >= 1.0.0 and whose
\* CHANGELOG.md exists, the visit records no error exactly when the changelog has
\* the towncrier marker and its first release heading equals the first version of
\* __about__.py; otherwise it records exactly one error for that integration.
C7_ReleasedPackageMatchesChangelog ==
    \A i \in 1..Len(current) :
        LET p == current[i].project
            matches == p.towncrier /\ p.releases # <<>> /\ p.releases[1] = p.about[1]
        IN  (IsPythonPackageWithChangelog(p) /\ p.about[1][1] >= 1) =>
                /\ ~current[i].raised
                /\ matches => ErrorsFor(p.name) = 0
                /\ ~matches => ErrorsFor(p.name) = 1

\* C7 witness: a package at the two-digit major version whose changelog lists that
\* release first and an older one after it passed without an error.
C7_Witness ==
    /\ versionPc = "visited"
    /\ current[1].project.name # "ddev"
    /\ current[1].project.version_file_exists
    /\ current[1].project.towncrier
    /\ current[1].project.about = <<(<<MaxMajor, 0, 0>>)>>
    /\ Len(current[1].project.releases) = 2
    /\ current[1].project.releases[1] = <<MaxMajor, 0, 0>>
    /\ current[1].project.releases[2] = <<1, 0, 0>>
    /\ ErrorsFor(current[1].project.name) = 0

\* C8: for a Python package with a towncrier-managed changelog and a version below
\* 1.0.0, the visit records no error exactly when the changelog has no release
\* section and the version is 0.0.1.
C8_NewPackageIsAtZeroZeroOne ==
    \A i \in 1..Len(current) :
        LET p == current[i].project
        IN  (IsPythonPackageWithChangelog(p) /\ p.towncrier /\ p.about[1][1] = 0) =>
                (ErrorsFor(p.name) = 0 <=> (p.releases = <<>> /\ p.about[1] = <<0, 0, 1>>))

\* C9: outside repo core the command aborts with no project visited and no error
\* tracked; in repo core, once the command has ended, 'Version checks out.' was
\* displayed exactly when no error was tracked and the command aborted when one
\* was; the ddev project never has an error.
C9_OutcomeReflectsErrors ==
    /\ repoName # "core" =>
          /\ versionPc \in {"start", "aborted"}
          /\ processed = <<>>
          /\ trackerErrors = <<>>
    /\ (repoName = "core" /\ Terminated) =>
          /\ ("Version checks out." \in Range(displayed)) <=> (trackerErrors = <<>>)
          /\ trackerErrors # <<>> => versionPc = "aborted"
    /\ "ddev" \notin Range(trackerErrors)

----------------------------------------------------------------------------
(* Claims about the KubeVirt checks' run, checked under SpecKubevirt *)

\* the gauges of one name submitted so far in this run
GaugesNamed(name) == SelectSeq(gauges, LAMBDA g : g.name = name)

RECURSIVE SumValues(_)
SumValues(gs) == IF gs = <<>> THEN 0 ELSE Head(gs).value + SumValues(Tail(gs))

HealthzConfigured == instance.healthz_endpoint # Unset

\* the run is past the health check statement of check()
PastHealthCheck == checkPc \notin {"start", "health"}

\* C11: with a healthz endpoint configured a run emits exactly one can_connect
\* gauge, 1 if the GET succeeded with a non-error status and 0 otherwise; on 0 the
\* exception is re-raised and nothing later happens in the run (no vm.count or
\* vmi.count gauge, no Kubernetes client, no scrape); with no healthz endpoint no
\* can_connect gauge is emitted and the run goes on to the step after the health
\* check.
C11_HealthCheckOutcome ==
    /\ [](LET cc == GaugesNamed("can_connect") IN
            /\ ~HealthzConfigured \/ ~PastHealthCheck => cc = <<>>
            /\ HealthzConfigured /\ PastHealthCheck =>
                /\ Len(cc) = 1
                /\ cc[1].value = IF healthResponse = "ok" THEN 1 ELSE 0
                /\ cc[1].value = 0 =>
                    /\ checkPc = "raised"
                    /\ gauges = cc
                    /\ ~kubeClient
                    /\ ~scraped)
    /\ [][checkPc = "health" /\ ~HealthzConfigured =>
            /\ checkPc' = IF checkKind = "api" THEN "validate" ELSE "scrape"
            /\ gauges' = gauges]_vars

\* a run whose health check got an error status: one gauge of value 0, raised
C11_Witness ==
    /\ HealthzConfigured
    /\ healthResponse = "error status"
    /\ checkPc = "raised"
    /\ Len(GaugesNamed("can_connect")) = 1
    /\ GaugesNamed("can_connect")[1].value = 0

\* the run has executed _report_vm_metrics and _report_vmis_metrics
MetricsReported ==
    /\ checkKind = "api"
    /\ \/ checkPc \in {"scrape", "done"}
       \/ checkPc = "raised" /\ scraped

\* C12: a KubeVirtApiCheck run that has reported its VMs and VMIs has emitted
\* max(1, number of VMs) vm.count gauges: one of value 1 per VM with that VM's
\* tags, or a single one of value 0 tagged with base_vm_tags when there are none;
\* the same for vmi.count and the VMIs; so the values of either name sum to the
\* number of objects returned.
C12_CountGaugesMatchObjects ==
    MetricsReported =>
        LET vm == GaugesNamed("vm.count")
            vmi == GaugesNamed("vmi.count")
        IN  /\ Len(vm) = MaxOf({1, Len(vms)})
            /\ vms = <<>> => vm = <<Gauge("vm.count", 0, baseVmTags)>>
            /\ \A i \in 1..Len(vms) :
                vm[i] = Gauge("vm.count", 1, ExtractVmTags(vms[i], instance))
            /\ SumValues(vm) = Len(vms)
            /\ Len(vmi) = MaxOf({1, Len(vmis)})
            /\ vmis = <<>> => vmi = <<Gauge("vmi.count", 0, baseVmTags)>>
            /\ \A i \in 1..Len(vmis) :
                vmi[i] = Gauge("vmi.count", 1, ExtractVmiTags(vmis[i], instance))
            /\ SumValues(vmi) = Len(vmis)

\* a finished run that found two VMs and no VMI
C12_Witness ==
    /\ MetricsReported
    /\ Len(vms) = MaxObjects
    /\ vmis = <<>>
    /\ Len(GaugesNamed("vm.count")) = MaxObjects
    /\ GaugesNamed("vmi.count") = <<Gauge("vmi.count", 0, baseVmTags)>>

----------------------------------------------------------------------------
(* Claim about the custom metric transformer, checked under SpecTransform *)

\* what the statement expects of one call: nothing for a metric not in
\* METRICS_MAP, else one submission per sample, in order, under the mapped name
\* (".count" appended for a counter) with the base tags appended to its tags
ExpectedSubmissions(m, data, baseTags) ==
    IF m.name \notin DOMAIN METRICS_MAP THEN <<>>
    ELSE [i \in 1..Len(data) |->
            [name |-> <<METRICS_MAP[m.name].name, IF m.type = "counter" THEN ".count" ELSE "">>,
             value |-> data[i].value,
             tags |-> data[i].tags \o baseTags,
             hostname |-> data[i].hostname]]

\* what the last call submitted, without the submitting method
Submitted ==
    [i \in 1..Len(submitted) |->
        [name |-> submitted[i].name, value |-> submitted[i].value,
         tags |-> submitted[i].tags, hostname |-> submitted[i].hostname]]

\* C13: after a call of the custom transformer, nothing is submitted for a metric
\* not in METRICS_MAP, and for a metric in METRICS_MAP every sample of sample_data
\* is submitted exactly once under the mapped name (".count" appended for
\* counters) with the base tags appended, whatever the metric type and the number
\* of samples.
C13_EachSampleSubmittedOnce ==
    metric # <<>> => Submitted = ExpectedSubmissions(metric, sampleData, basePodTags)

====
